---- MODULE Spec2Model ----
(***************************************************************************)
(* A model of the BadBoids flocking simulation (src/src/main.rs): the boid *)
(* population, the Options resource, the KD-tree resource read by          *)
(* tick_boids, and tick_boids itself, split into its snapshot/compute loop *)
(* and its commit loop.                                                    *)
(*                                                                         *)
(* f32 values are modelled in fixed point: an integer n stands for the     *)
(* number n / Scale.  Products and quotients are rounded towards zero to   *)
(* the grid, which plays the part of f32 rounding.  One extra value, NaN,  *)
(* stands for a non-finite f32; it is absorbing under arithmetic and makes *)
(* every comparison false, as IEEE NaN does.                               *)
(***************************************************************************)
EXTENDS Integers, Sequences, FiniteSets, TLC

VARIABLES
    boids,          \* live entities: id -> [x, y, z, rotation, scale, vx, vy, flock_size]
    nextId,         \* next entity id handed out by spawn_bundle
    options,        \* the Options resource
    tree,           \* the BoidNNTree resource: a set of [id, x, y] entries
    pc,             \* position of tick_boids: "idle", "compute", "commit", "done"
    todo,           \* entities query.iter() has not yet yielded in this tick
    updated_boids,  \* the Vec<(Entity, Boid, Transform)> of tick_boids
    ticks,          \* number of unpaused tick_boids runs so far (history)
    op,             \* the last handler that ran: "tick", "tick_paused", "spawn", "other" (history)
    pre,            \* boids as they were when the last handler started (history)
    preTree,        \* tree as it was when the last handler started (history)
    lastRead,       \* what the last iteration of the compute loop read (history)
    results         \* entity -> what the compute loop of the last tick pushed for it (history)

vars == <<boids, nextId, options, tree, pc, todo, updated_boids, ticks, op, pre,
          preTree, lastRead, results>>

---------------------------------------------------------------------------
(* Fixed-point f32 *)

Scale == 10 * 1000

NaN == 0 - (2 ^ 30)

\* The decimal n/d as a fixed-point value, e.g. Dec(3, 10) is 0.3.
Dec(n, d) == (n * Scale) \div d

IsFinite(a) == a # NaN

Abs(a) == IF a < 0 THEN 0 - a ELSE a

Sign(a) == IF a < 0 THEN 0 - 1 ELSE 1

FAdd(a, b) == IF IsFinite(a) /\ IsFinite(b) THEN a + b ELSE NaN

FSub(a, b) == IF IsFinite(a) /\ IsFinite(b) THEN a - b ELSE NaN

\* p * q / Scale for p, q >= 0, rounded down, without leaving 32 bits: both
\* factors are split into their integer and fractional parts.
MulMag(p, q) ==
    (p \div Scale) * (q \div Scale) * Scale
        + (p \div Scale) * (q % Scale)
        + (p % Scale) * (q \div Scale)
        + ((p % Scale) * (q % Scale)) \div Scale

FMul(a, b) ==
    IF IsFinite(a) /\ IsFinite(b)
    THEN Sign(a) * Sign(b) * MulMag(Abs(a), Abs(b))
    ELSE NaN

\* a / b; x / 0 is non-finite (0/0 is NaN, x/0 is an infinity).
FDiv(a, b) ==
    IF IsFinite(a) /\ IsFinite(b) /\ b # 0
    THEN LET p == Abs(a)
             q == Abs(b)
         IN  Sign(a) * Sign(b) * ((p \div q) * Scale + ((p % q) * Scale) \div q)
    ELSE NaN

FLt(a, b) == IsFinite(a) /\ IsFinite(b) /\ a < b

FGt(a, b) == IsFinite(a) /\ IsFinite(b) /\ a > b

FLe(a, b) == IsFinite(a) /\ IsFinite(b) /\ a <= b

\* u32 / i32 `as f32`
AsF32(n) == n * Scale

RECURSIVE SqrtSearch(_, _, _)
\* the largest r in lo..hi with r * r <= n
SqrtSearch(n, lo, hi) ==
    IF lo >= hi THEN lo
    ELSE LET mid == (lo + hi + 1) \div 2
         IN  IF mid * mid <= n THEN SqrtSearch(n, mid, hi)
             ELSE SqrtSearch(n, lo, mid - 1)

\* sqrt((vx * vx + vy * vy) as f64) as f32: the sum of squares is taken
\* without rounding and the root is rounded down to the grid.
Speed(vx, vy) ==
    IF IsFinite(vx) /\ IsFinite(vy)
    THEN SqrtSearch(vx * vx + vy * vy, 0, Abs(vx) + Abs(vy))
    ELSE NaN

---------------------------------------------------------------------------
(* Options (main.rs 286-348) *)

\* impl Default for Options.  The visual options play no part in the
\* simulation and are left out.
DefaultOptions ==
    [ paused            |-> TRUE,
      visibility_range  |-> Dec(10, 1),
      accuracy          |-> 100,
      separation        |-> TRUE,
      separation_range  |-> Dec(2, 1),
      separation_impact |-> Dec(5, 100),
      alignment         |-> TRUE,
      alignment_impact  |-> Dec(5, 100),
      cohesion          |-> TRUE,
      cohesion_impact   |-> Dec(5, 10000),
      border            |-> TRUE,
      border_size       |-> 50,
      border_impact     |-> Dec(2, 100),
      speed_limit       |-> TRUE,
      min_speed         |-> Dec(3, 10),
      max_speed         |-> Dec(2, 10),
      spawn_amount      |-> 100,
      calculate_rotation |-> TRUE ]

\* The literal 0.0005 of main.rs 534-535.
CohesionFactor == Dec(5, 10000)

---------------------------------------------------------------------------
(* Boids (main.rs 359-407) *)

\* Transform::default() with the scale spawn_boid gives it, Boid::default().
NewBoid(x, y) ==
    [ x |-> x, y |-> y, z |-> 0,
      rotation |-> <<0, 0, 0, Dec(1, 1)>>,
      scale |-> <<Dec(7, 10), Dec(11, 10), Dec(1, 1)>>,
      vx |-> 0, vy |-> 0, flock_size |-> 0 ]

\* Quat::from_rotation_z(atan2f(vy, vx) - 90 degrees) (main.rs 453-454), as
\* <<x, y, z, w>> = <<0, 0, sin(a / 2), cos(a / 2)>>.  With t = atan2f(vy, vx)
\* and a = t - 90 degrees, cos(a) = sin(t) = vy / speed, and the half-angle
\* formulas give the two components; a / 2 lies in (-135, 45] degrees, which
\* fixes their signs.  atan2f(0, 0) = 0.
RotationOf(vx, vy) ==
    IF ~IsFinite(vx) \/ ~IsFinite(vy)
    THEN <<0, 0, NaN, NaN>>
    ELSE LET speed == Speed(vx, vy)
             cosA == IF speed = 0 THEN 0 ELSE FDiv(vy, speed)
             cosHalf == SqrtSearch(((Scale + cosA) \div 2) * Scale, 0, Scale)
             sinHalf == SqrtSearch(((Scale - cosA) \div 2) * Scale, 0, Scale)
             sinPos == vx <= 0 /\ vy >= 0 /\ <<vx, vy>> # <<0, 0>>
             cosNeg == vx < 0 /\ vy < 0
         IN  << 0, 0,
                IF sinPos THEN sinHalf ELSE 0 - sinHalf,
                IF cosNeg THEN 0 - cosHalf ELSE cosHalf >>

\* Mutant of SpawnCoord: the offset `- border_size` is forgotten.
SpawnCoordNoOffset(r, border_size) ==
    FMul(FMul(r, AsF32(border_size)), Dec(2, 1))

\* rand::random::<f32>() * border_size * 2.0 - border_size, for the random
\* draw r in [0, 1).
SpawnCoord(r, border_size) ==
    FSub(FMul(FMul(r, AsF32(border_size)), Dec(2, 1)), AsF32(border_size))

---------------------------------------------------------------------------
(* The KD-tree resource (bevy_spatial, used at main.rs 489) *)

\* The entries the plugin holds when it has caught up with the population.
FreshTree(bs) == { [id |-> i, x |-> bs[i].x, y |-> bs[i].y] : i \in DOMAIN bs }

\* Squared distance from (px, py) to a tree entry.
DistSq(px, py, it) ==
    FAdd(FMul(FSub(px, it.x), FSub(px, it.x)), FMul(FSub(py, it.y), FSub(py, it.y)))

\* tree.within_distance(pos, distance): the entries within the distance,
\* as a set; the order in which they come back is chosen by the caller.
WithinDistance(t, px, py, distance) ==
    { it \in t : FLe(DistSq(px, py, it), FMul(distance, distance)) }

\* All orders in which a set of entries can be returned.
Orders(S) ==
    LET n == Cardinality(S)
    IN  { f \in [1..n -> S] : \A i, j \in 1..n : f[i] = f[j] => i = j }

---------------------------------------------------------------------------
(* One iteration of the compute loop of tick_boids (main.rs 474-582) *)

ZeroAcc ==
    [ close_dx |-> 0, close_dy |-> 0,
      flock_vx_sum |-> 0, flock_vy_sum |-> 0,
      flock_x_sum |-> 0, flock_y_sum |-> 0,
      used |-> {}, cohered |-> {} ]

\* Mutant of LoopBody: the alignment sums are assigned, not accumulated, so
\* the last entry of the flock decides them.
LoopBodyLastWins(opts, b, it, other, acc) ==
    LET dx == FSub(b.x, it.x)
        dy == FSub(b.y, it.y)
        near == FLt(FAdd(FMul(dx, dx), FMul(dy, dy)), opts.separation_range)
                    /\ opts.separation
        a1 == IF near
              THEN [acc EXCEPT !.close_dx = FAdd(@, dx), !.close_dy = FAdd(@, dy)]
              ELSE IF opts.cohesion
                   THEN [acc EXCEPT !.flock_x_sum = FAdd(@, it.x),
                                    !.flock_y_sum = FAdd(@, it.y),
                                    !.cohered = @ \cup {it.id}]
                   ELSE acc
        a2 == IF opts.alignment
              THEN [a1 EXCEPT !.flock_vx_sum = other.vx, !.flock_vy_sum = other.vy]
              ELSE a1
    IN  [a2 EXCEPT !.used = @ \cup {it.id}]

\* The body of the loop over the flock (main.rs 506-523) for the entry `it`;
\* `used` collects the entities that reached the body and `cohered` those
\* whose position was added to the cohesion sums.
LoopBody(opts, b, it, other, acc) ==
    LET dx == FSub(b.x, it.x)
        dy == FSub(b.y, it.y)
        near == FLt(FAdd(FMul(dx, dx), FMul(dy, dy)), opts.separation_range)
                    /\ opts.separation
        a1 == IF near
              THEN [acc EXCEPT !.close_dx = FAdd(@, dx), !.close_dy = FAdd(@, dy)]
              ELSE IF opts.cohesion
                   THEN [acc EXCEPT !.flock_x_sum = FAdd(@, it.x),
                                    !.flock_y_sum = FAdd(@, it.y),
                                    !.cohered = @ \cup {it.id}]
                   ELSE acc
        a2 == IF opts.alignment
              THEN [a1 EXCEPT !.flock_vx_sum = FAdd(@, other.vx),
                              !.flock_vy_sum = FAdd(@, other.vy)]
              ELSE a1
    IN  [a2 EXCEPT !.used = @ \cup {it.id}]

RECURSIVE FlockLoop(_, _, _, _, _, _)
\* for (i, ..) in flock.into_iter().enumerate() { if i as u32 > accuracy { break; } .. }
\* with i the 1-based index into flock (the code's i is i - 1).
FlockLoop(opts, b, flock, live, i, acc) ==
    IF i > Len(flock) \/ (i - 1) > opts.accuracy
    THEN acc
    ELSE FlockLoop(opts, b, flock, live, i + 1,
                   LoopBody(opts, b, flock[i], live[flock[i].id], acc))

RECURSIVE LiveFlockStopAtStale(_, _)
\* Mutant of LiveFlock: the first entry whose entity is gone ends the flock
\* (a map_while instead of a filter_map).
LiveFlockStopAtStale(flockRaw, live) ==
    IF flockRaw = <<>> \/ Head(flockRaw).id \notin DOMAIN live
    THEN <<>>
    ELSE <<Head(flockRaw)>> \o LiveFlockStopAtStale(Tail(flockRaw), live)

\* filter_map(|it| Some((it.0, query.get(it.1).ok()?.1))) (main.rs 496-499)
LiveFlock(flockRaw, live) ==
    LET IsLive(it) == it.id \in DOMAIN live
    IN  SelectSeq(flockRaw, IsLive)

\* The accumulators after the loop over the flock.
Accumulate(opts, b, flockRaw, live) ==
    FlockLoop(opts, b, LiveFlock(flockRaw, live), live, 1, ZeroAcc)

\* main.rs 527-530: the term added to the velocity for alignment.
AlignmentTerm(opts, b, flock_size, acc) ==
    LET flock_vx_avrg == FDiv(acc.flock_vx_sum, AsF32(flock_size))
        flock_vy_avrg == FDiv(acc.flock_vy_sum, AsF32(flock_size))
    IN  << FMul(FSub(flock_vx_avrg, b.vx), opts.alignment_impact),
           FMul(FSub(flock_vy_avrg, b.vy), opts.alignment_impact) >>

\* main.rs 532-535: the term added to the velocity for cohesion.
CohesionTerm(b, flock_size, acc) ==
    LET flock_x_avrg == FDiv(acc.flock_x_sum, AsF32(flock_size))
        flock_y_avrg == FDiv(acc.flock_y_sum, AsF32(flock_size))
    IN  << FMul(FSub(flock_x_avrg, b.x), CohesionFactor),
           FMul(FSub(flock_y_avrg, b.y), CohesionFactor) >>

\* main.rs 526-536: alignment and cohesion, applied when the flock is non-empty.
ApplyFlock(opts, b, flock_size, acc) ==
    IF flock_size > 0
    THEN LET al == AlignmentTerm(opts, b, flock_size, acc)
             co == CohesionTerm(b, flock_size, acc)
         IN  [b EXCEPT !.vx = FAdd(FAdd(b.vx, al[1]), co[1]),
                       !.vy = FAdd(FAdd(b.vy, al[2]), co[2])]
    ELSE b

\* main.rs 538-539
ApplySeparation(opts, b, acc) ==
    [b EXCEPT !.vx = FAdd(@, FMul(acc.close_dx, opts.separation_impact)),
              !.vy = FAdd(@, FMul(acc.close_dy, opts.separation_impact))]

\* main.rs 541-559
ApplyBorder(opts, b) ==
    IF opts.border
    THEN LET size == AsF32(opts.border_size)
             vx1 == IF FGt(b.x, size) THEN FSub(b.vx, opts.border_impact) ELSE b.vx
             vx2 == IF FLt(b.x, 0 - size) THEN FAdd(vx1, opts.border_impact) ELSE vx1
             vy1 == IF FGt(b.y, size) THEN FSub(b.vy, opts.border_impact) ELSE b.vy
             vy2 == IF FLt(b.y, 0 - size) THEN FAdd(vy1, opts.border_impact) ELSE vy1
         IN  [b EXCEPT !.vx = vx2, !.vy = vy2]
    ELSE b

\* main.rs 561-574.  `speed` is computed once; the second test uses it again
\* after the first rescaling.
ApplySpeedLimit(opts, b) ==
    IF opts.speed_limit
    THEN LET speed == Speed(b.vx, b.vy)
             lo == IF FLt(speed, opts.min_speed)
                   THEN [b EXCEPT !.vx = FMul(FDiv(b.vx, speed), opts.min_speed),
                                  !.vy = FMul(FDiv(b.vy, speed), opts.min_speed)]
                   ELSE b
         IN  IF FGt(speed, opts.max_speed)
             THEN [lo EXCEPT !.vx = FMul(FDiv(lo.vx, speed), opts.max_speed),
                             !.vy = FMul(FDiv(lo.vy, speed), opts.max_speed)]
             ELSE lo
    ELSE b

\* main.rs 576-578
Integrate(b) == [b EXCEPT !.x = FAdd(@, b.vx), !.y = FAdd(@, b.vy)]

\* One iteration for the entity whose components are b, when within_distance
\* returned flockRaw and `live` are the entities of the query: the
\* (boid, transform) pushed to updated_boids, with the entities the loop body
\* ran for, the entities and the sums of the cohesion accumulator, the terms
\* added for alignment and cohesion, and the velocity with which the
\* speed-limit step was entered.
Iteration(opts, b, flockRaw, live) ==
    LET acc == Accumulate(opts, b, flockRaw, live)
        before == ApplyBorder(opts,
                      ApplySeparation(opts, ApplyFlock(opts, b, Len(flockRaw), acc), acc))
    IN  [ boid |-> [ Integrate(ApplySpeedLimit(opts, before))
                       EXCEPT !.flock_size = Len(flockRaw) ],
          used |-> acc.used,
          cohered |-> acc.cohered,
          sums |-> <<acc.flock_x_sum, acc.flock_y_sum>>,
          alignment |-> IF Len(flockRaw) > 0
                        THEN AlignmentTerm(opts, b, Len(flockRaw), acc) ELSE <<0, 0>>,
          cohesion |-> IF Len(flockRaw) > 0
                       THEN CohesionTerm(b, Len(flockRaw), acc) ELSE <<0, 0>>,
          before |-> <<before.vx, before.vy>> ]

\* The (boid, transform) pushed to updated_boids.
TickBoid(opts, b, flockRaw, live) == Iteration(opts, b, flockRaw, live).boid

---------------------------------------------------------------------------
(* Bounds *)

\* Entities ever spawned in a run.
MaxEntities == 4

\* Unpaused tick_boids runs in a run.
MaxTicks == 2

\* Boids spawned by init_world (100 in main.rs 119, scaled down).
InitBoids == 2

\* The draws (rx, ry) of rand::random::<f32>() a spawn can make.
Draws == { <<Dec(1, 2), Dec(1, 2)>>, <<Dec(11, 20), Dec(1, 2)>>, <<0, Dec(3, 4)>> }

\* The values the GUI's drag fields are set to.
BorderSizes == {10, 50}

SpawnAmounts == {1, 2}

---------------------------------------------------------------------------
(* State *)

NoRead ==
    [entity |-> 0, own |-> <<>>, flock_size |-> 0, flockIds |-> {}, nbrs |-> {},
     used |-> {}, cohered |-> {}, sums |-> <<>>, alignment |-> <<>>,
     cohesion |-> <<>>, before |-> <<>>]

\* k boids spawned with ids first..first+k-1 from the draws ds[1..k].
Spawned(first, k, ds, border_size) ==
    [ i \in first..(first + k - 1) |->
        NewBoid(SpawnCoord(ds[i - first + 1][1], border_size),
                SpawnCoord(ds[i - first + 1][2], border_size)) ]

\* After App::new()...run() has run the startup systems: Options::default(),
\* init_world's boids, and the tree built from them.
Init ==
    /\ options = DefaultOptions
    /\ \E ds \in [1..InitBoids -> Draws] :
           boids = Spawned(1, InitBoids, ds, DefaultOptions.border_size)
    /\ nextId = InitBoids + 1
    /\ tree = FreshTree(boids)
    /\ pc = "idle"
    /\ todo = {}
    /\ updated_boids = <<>>
    /\ ticks = 0
    /\ op = "init"
    /\ pre = <<>>
    /\ preTree = {}
    /\ lastRead = NoRead
    /\ results = <<>>

---------------------------------------------------------------------------
(* Handlers other than tick_boids *)

\* handle_play_pause (Space), or the Play/Pause button of cgol_gui.
HandlePlayPause ==
    /\ pc = "idle"
    /\ options' = [options EXCEPT !.paused = ~@]
    /\ op' = "other"
    /\ pre' = <<>>
    /\ lastRead' = NoRead
    /\ results' = <<>>
    /\ UNCHANGED <<boids, nextId, tree, pc, todo, updated_boids, ticks, preTree>>

\* cgol_gui: the Border Size drag value.
SetBorderSize ==
    /\ pc = "idle"
    /\ \E v \in BorderSizes \ {options.border_size} :
           options' = [options EXCEPT !.border_size = v]
    /\ op' = "other"
    /\ pre' = <<>>
    /\ lastRead' = NoRead
    /\ results' = <<>>
    /\ UNCHANGED <<boids, nextId, tree, pc, todo, updated_boids, ticks, preTree>>

\* cgol_gui: the spawn amount drag value.
SetSpawnAmount ==
    /\ pc = "idle"
    /\ \E v \in SpawnAmounts \ {options.spawn_amount} :
           options' = [options EXCEPT !.spawn_amount = v]
    /\ op' = "other"
    /\ pre' = <<>>
    /\ lastRead' = NoRead
    /\ results' = <<>>
    /\ UNCHANGED <<boids, nextId, tree, pc, todo, updated_boids, ticks, preTree>>

\* The boids after `for _ in 0..spawn_amount { spawn_boid(..) }` with draws ds.
SpawnAll(bs, first, k, ds, border_size) ==
    LET new == Spawned(first, k, ds, border_size)
    IN  [ i \in DOMAIN bs \cup DOMAIN new |-> IF i \in DOMAIN new THEN new[i] ELSE bs[i] ]

\* cgol_gui: the Spawn button.
SpawnButton ==
    /\ pc = "idle"
    /\ options.spawn_amount >= 1
    /\ nextId + options.spawn_amount - 1 <= MaxEntities
    /\ \E ds \in [1..options.spawn_amount -> Draws] :
           boids' = SpawnAll(boids, nextId, options.spawn_amount, ds, options.border_size)
    /\ nextId' = nextId + options.spawn_amount
    /\ op' = "spawn"
    /\ pre' = boids
    /\ lastRead' = NoRead
    /\ results' = <<>>
    /\ UNCHANGED <<options, tree, pc, todo, updated_boids, ticks, preTree>>

\* An entity is removed by something outside the simulation, between two
\* systems or between the compute loop and a commit.
Despawn ==
    /\ pc \in {"idle", "commit"}
    /\ \E e \in DOMAIN boids :
           boids' = [ i \in DOMAIN boids \ {e} |-> boids[i] ]
    /\ op' = IF pc = "idle" THEN "other" ELSE op
    /\ pre' = IF pc = "idle" THEN <<>> ELSE pre
    /\ lastRead' = IF pc = "idle" THEN NoRead ELSE lastRead
    /\ results' = IF pc = "idle" THEN <<>> ELSE results
    /\ UNCHANGED <<nextId, options, tree, pc, todo, updated_boids, ticks, preTree>>

\* The KDTreePlugin2D systems bring the tree up to date with the entities.
TreeUpdate ==
    /\ pc = "idle"
    /\ tree # FreshTree(boids)
    /\ tree' = FreshTree(boids)
    /\ op' = "other"
    /\ pre' = <<>>
    /\ lastRead' = NoRead
    /\ results' = <<>>
    /\ UNCHANGED <<boids, nextId, options, pc, todo, updated_boids, ticks, preTree>>

\* calculate_boid_rotation (main.rs 447-456), run on its own fixed timestep
\* between runs of tick_boids.
CalculateBoidRotation ==
    /\ pc = "idle"
    /\ options.calculate_rotation
    /\ boids' = [ e \in DOMAIN boids |->
                    [boids[e] EXCEPT !.rotation = RotationOf(boids[e].vx, boids[e].vy)] ]
    /\ op' = "other"
    /\ pre' = <<>>
    /\ lastRead' = NoRead
    /\ results' = <<>>
    /\ UNCHANGED <<nextId, options, tree, pc, todo, updated_boids, ticks, preTree>>

---------------------------------------------------------------------------
(* tick_boids (main.rs 462-598) *)

\* Mutant of TickPaused: the early return is missing, the tick runs.
TickPausedRuns ==
    /\ pc = "idle"
    /\ ticks < MaxTicks
    /\ options.paused
    /\ DOMAIN boids # {}
    /\ ticks' = ticks + 1
    /\ pc' = "compute"
    /\ todo' = DOMAIN boids
    /\ updated_boids' = <<>>
    /\ op' = "tick"
    /\ pre' = boids
    /\ preTree' = tree
    /\ lastRead' = NoRead
    /\ results' = <<>>
    /\ UNCHANGED <<boids, nextId, options, tree>>

\* main.rs 467-469: the early return.
TickPaused ==
    /\ pc = "idle"
    /\ options.paused
    /\ op' = "tick_paused"
    /\ pre' = boids
    /\ lastRead' = NoRead
    /\ results' = <<>>
    /\ UNCHANGED <<boids, nextId, options, tree, pc, todo, updated_boids, ticks, preTree>>

\* main.rs 471-472: query.iter() and the empty Vec.
TickBegin ==
    /\ pc = "idle"
    /\ ticks < MaxTicks
    /\ ~options.paused
    /\ ticks' = ticks + 1
    /\ pc' = IF DOMAIN boids = {} THEN "idle" ELSE "compute"
    /\ todo' = DOMAIN boids
    /\ updated_boids' = <<>>
    /\ op' = "tick"
    /\ pre' = boids
    /\ preTree' = tree
    /\ lastRead' = NoRead
    /\ results' = <<>>
    /\ UNCHANGED <<boids, nextId, options, tree>>

\* What one iteration reads: the entity's own components, the tree's answer
\* (its size and its ids), for each live neighbour
\* the position the tree gave and the velocity the query gave; the entities
\* the loop body ran for, the cohesion accumulator, the alignment and cohesion
\* terms, and the velocity before the speed-limit step.
ReadsOf(e, flockRaw, live, it) ==
    [ entity |-> e,
      own |-> <<live[e].x, live[e].y, live[e].vx, live[e].vy>>,
      flock_size |-> Len(flockRaw),
      flockIds |-> { flockRaw[i].id : i \in 1..Len(flockRaw) },
      nbrs |-> { [id |-> flockRaw[i].id, x |-> flockRaw[i].x, y |-> flockRaw[i].y,
                  vx |-> live[flockRaw[i].id].vx, vy |-> live[flockRaw[i].id].vy] :
                 i \in { j \in 1..Len(flockRaw) : flockRaw[j].id \in DOMAIN live } },
      used |-> it.used,
      cohered |-> it.cohered,
      sums |-> it.sums,
      alignment |-> it.alignment,
      cohesion |-> it.cohesion,
      before |-> it.before ]

\* Mutant of ComputeWrite: the iteration writes its result to the entity at once.
ComputeWriteInPlace(bs, e, result) == [bs EXCEPT ![e] = result]

\* The effect of one iteration of main.rs 474-582 on the population: none,
\* the result goes to updated_boids.
ComputeWrite(bs, e, result) == bs

\* One iteration of the loop over query.iter() (main.rs 474-582), for any
\* entity not yet visited and any order of the tree's answer.
ComputeStep ==
    /\ pc = "compute"
    /\ \E e \in todo :
       \E flockRaw \in Orders(WithinDistance(tree, boids[e].x, boids[e].y,
                                              options.visibility_range)) :
           LET it == Iteration(options, boids[e], flockRaw, boids)
               result == it.boid
           IN  /\ updated_boids' = Append(updated_boids, [entity |-> e, boid |-> result])
               /\ boids' = ComputeWrite(boids, e, result)
               /\ lastRead' = ReadsOf(e, flockRaw, boids, it)
               /\ results' = [ i \in DOMAIN results \cup {e} |->
                                 IF i = e THEN result ELSE results[i] ]
               /\ todo' = todo \ {e}
               /\ pc' = IF todo \ {e} = {} THEN "commit" ELSE "compute"
    /\ UNCHANGED <<nextId, options, tree, ticks, op, pre, preTree>>

\* Mutant of CommitOne: the transform is rebuilt from the new translation, so
\* rotation and scale fall back to those of Transform::default().
CommitOneFreshTransform(bs, u) ==
    IF u.entity \in DOMAIN bs
    THEN [bs EXCEPT ![u.entity] =
             [@ EXCEPT !.flock_size = u.boid.flock_size,
                       !.vx = u.boid.vx, !.vy = u.boid.vy,
                       !.x = u.boid.x, !.y = u.boid.y, !.z = u.boid.z,
                       !.rotation = <<0, 0, 0, Dec(1, 1)>>,
                       !.scale = <<Dec(1, 1), Dec(1, 1), Dec(1, 1)>>]]
    ELSE bs

\* main.rs 586-596 for one element of updated_boids: the entity's components
\* are overwritten, or the element is skipped when query.get_mut fails.
CommitOne(bs, u) ==
    IF u.entity \in DOMAIN bs
    THEN [bs EXCEPT ![u.entity] =
             [@ EXCEPT !.flock_size = u.boid.flock_size,
                       !.vx = u.boid.vx, !.vy = u.boid.vy,
                       !.x = u.boid.x, !.y = u.boid.y, !.z = u.boid.z,
                       !.rotation = u.boid.rotation, !.scale = u.boid.scale]]
    ELSE bs

\* One iteration of the loop over updated_boids (main.rs 585-597).
CommitStep ==
    /\ pc = "commit"
    /\ updated_boids # <<>>
    /\ boids' = CommitOne(boids, Head(updated_boids))
    /\ updated_boids' = Tail(updated_boids)
    /\ pc' = IF Tail(updated_boids) = <<>> THEN "idle" ELSE "commit"
    /\ lastRead' = NoRead
    /\ UNCHANGED <<nextId, options, tree, todo, ticks, op, pre, preTree, results>>

---------------------------------------------------------------------------
(* The program *)

\* The simulation: pausing, ticking, the tree plugin, and entities going away.
Next ==
    \/ HandlePlayPause
    \/ Despawn
    \/ TreeUpdate
    \/ CalculateBoidRotation
    \/ TickPaused
    \/ TickBegin
    \/ ComputeStep
    \/ CommitStep

Spec == Init /\ [][Next]_vars

\* The spawn controls of the GUI.
NextSpawn ==
    \/ SetBorderSize
    \/ SetSpawnAmount
    \/ SpawnButton

SpecSpawn == Init /\ [][NextSpawn]_vars

---------------------------------------------------------------------------
(* The rules of tick_boids over drawn configurations and populations *)

\* Boids in a drawn population.
MaxPopulation == 3

\* The boids a drawn population is made of: position and velocity.
Candidates ==
    << [x |-> 0,            y |-> 0,            vx |-> 0,           vy |-> 0],
       [x |-> Dec(1, 1),    y |-> 0,            vx |-> 0,           vy |-> 0],
       [x |-> Dec(15, 1),   y |-> 0,            vx |-> Dec(25, 100), vy |-> 0],
       [x |-> Dec(5, 1),    y |-> 0 - Dec(3, 1), vx |-> Dec(1, 10),
        vy |-> 0 - Dec(2, 10)] >>

Accuracies == {1, 100}

\* The configurations the GUI can set (main.rs 138-232), unpaused; the
\* parameters of a disabled rule are left at their defaults.
RuleOptions ==
    LET all == { [DefaultOptions EXCEPT !.paused = FALSE,
                      !.separation = s, !.alignment = a, !.cohesion = c,
                      !.border = b, !.speed_limit = l,
                      !.accuracy = acc, !.border_size = bs] :
                    s \in BOOLEAN, a \in BOOLEAN, c \in BOOLEAN, b \in BOOLEAN,
                    l \in BOOLEAN, acc \in Accuracies, bs \in BorderSizes }
    IN  { o \in all : o.border \/ o.border_size = DefaultOptions.border_size }

\* A configuration, a population of up to MaxPopulation of the candidates
\* with the tree up to date, and tick_boids about to run.
InitRules ==
    /\ options \in RuleOptions
    /\ \E S \in SUBSET (1..Len(Candidates)) :
           /\ Cardinality(S) \in 1..MaxPopulation
           /\ boids = [ i \in S |->
                          [NewBoid(Candidates[i].x, Candidates[i].y)
                              EXCEPT !.vx = Candidates[i].vx, !.vy = Candidates[i].vy] ]
    /\ nextId = Len(Candidates) + 1
    /\ tree = FreshTree(boids)
    /\ pc = "idle"
    /\ todo = {}
    /\ updated_boids = <<>>
    /\ ticks = 0
    /\ op = "other"
    /\ pre = <<>>
    /\ preTree = {}
    /\ lastRead = NoRead
    /\ results = <<>>

\* One run of tick_boids.
NextRules ==
    \/ ticks = 0 /\ TickBegin
    \/ ComputeStep
    \/ CommitStep

SpecRules == InitRules /\ [][NextRules]_vars

---------------------------------------------------------------------------
(* Claims *)

Moved(e) == e \in DOMAIN pre /\ e \in DOMAIN boids /\ boids[e] # pre[e]

\* The last iteration of the compute loop read the entity's own position and
\* velocity as they were when the tick began.
OwnReadPreTick ==
    lastRead # NoRead =>
        /\ lastRead.entity \in DOMAIN pre
        /\ lastRead.own = <<pre[lastRead.entity].x, pre[lastRead.entity].y,
                            pre[lastRead.entity].vx, pre[lastRead.entity].vy>>

\* ... and every neighbour's velocity as it was when the tick began.
NbrVelocityPreTick ==
    \A n \in lastRead.nbrs :
        n.id \in DOMAIN pre /\ n.vx = pre[n.id].vx /\ n.vy = pre[n.id].vy

\* ... and every other agent's position as it was when the tick began.
NbrPositionPreTick ==
    \A n \in lastRead.nbrs :
        n.id # lastRead.entity =>
            n.id \in DOMAIN pre /\ n.x = pre[n.id].x /\ n.y = pre[n.id].y

\* ... and every neighbour's position as the tree held it when the tick began.
NbrPositionFromTree ==
    \A n \in lastRead.nbrs : [id |-> n.id, x |-> n.x, y |-> n.y] \in preTree

\* No component is written while the compute loop runs, and the commit loop
\* starts only when every entity of the tick has its result.
ComputeBeforeCommit ==
    /\ pc = "compute" => boids = pre /\ tree = preTree
    /\ pc = "commit" => todo = {} /\ DOMAIN results = DOMAIN pre /\ tree = preTree

Simulated(b) == <<b.x, b.y, b.vx, b.vy, b.flock_size>>

\* C2: while paused, tick_boids (and every other step) leaves each agent's
\* position, velocity and flock_size as they are and makes no neighbour query
\* and no rule evaluation; an agent changes only in a step of a tick that
\* began with paused = false.
C2_PauseIdempotence ==
    [][ /\ options.paused =>
            /\ \A e \in DOMAIN boids \cap DOMAIN boids' : Simulated(boids'[e]) = Simulated(boids[e])
            /\ lastRead' = NoRead
            /\ results' = <<>>
            /\ updated_boids' = <<>>
            /\ pc' = "idle"
        /\ (\E e \in DOMAIN boids \cap DOMAIN boids' :
                Simulated(boids'[e]) # Simulated(boids[e])) =>
            ~options.paused /\ op = "tick" /\ pc = "commit" ]_vars

\* tick_boids has just run while paused, after an earlier tick moved a boid.
C2_Witness ==
    /\ op = "tick_paused"
    /\ options.paused
    /\ ticks >= 1
    /\ \E e \in DOMAIN boids : boids[e].vx # 0 /\ IsFinite(boids[e].vx)

\* C5: an id the tree returns that is no live entity is skipped, alone: every
\* live neighbour of the answer is processed; an update whose entity is gone
\* at commit time is skipped, alone: every other update is committed; and the
\* tick always has a next step (an entity to visit, an update to commit)
\* until it is complete.
C5_StaleReferences ==
    /\ lastRead # NoRead /\ Cardinality(lastRead.flockIds) <= options.accuracy =>
           /\ lastRead.used = lastRead.flockIds \cap DOMAIN pre
           /\ lastRead.flock_size = Cardinality(lastRead.flockIds)
    /\ pc = "idle" /\ op = "tick" =>
           /\ updated_boids = <<>>
           /\ DOMAIN results = DOMAIN pre
           /\ \A e \in DOMAIN results \cap DOMAIN boids :
                  /\ boids[e].x = results[e].x /\ boids[e].y = results[e].y
                  /\ boids[e].vx = results[e].vx /\ boids[e].vy = results[e].vy
                  /\ boids[e].flock_size = results[e].flock_size
    /\ pc = "compute" => todo # {} /\ todo \subseteq DOMAIN boids
    /\ pc = "commit" => updated_boids # <<>>

\* A tick has completed in which one update was skipped at commit time, its
\* entity being gone, and another was committed.
C5_Witness ==
    /\ pc = "idle"
    /\ op = "tick"
    /\ \E e \in DOMAIN results : e \notin DOMAIN boids
    /\ \E e \in DOMAIN results : Moved(e)

\* The tree returned an id that is no live entity, and the loop body ran for
\* the live ones.
StaleIdAtQuery ==
    /\ lastRead # NoRead
    /\ ~(lastRead.flockIds \subseteq DOMAIN pre)
    /\ lastRead.used # {}

\* C6: a spawn of k boids (init_world, or the Spawn button with
\* k = spawn_amount) adds exactly k boids, each inside
\* [-border_size, border_size] on both axes for the border_size of that
\* moment, each at rest.
C6_SpawnMonotonicity ==
    LET InBox(b) ==
            /\ FLe(0 - AsF32(options.border_size), b.x)
            /\ FLe(b.x, AsF32(options.border_size))
            /\ FLe(0 - AsF32(options.border_size), b.y)
            /\ FLe(b.y, AsF32(options.border_size))
            /\ b.vx = 0 /\ b.vy = 0
    IN  /\ op = "init" =>
            /\ Cardinality(DOMAIN boids) = InitBoids
            /\ \A e \in DOMAIN boids : InBox(boids[e])
        /\ op = "spawn" =>
            /\ DOMAIN pre \subseteq DOMAIN boids
            /\ \A e \in DOMAIN pre : boids[e] = pre[e]
            /\ Cardinality(DOMAIN boids) = Cardinality(DOMAIN pre) + options.spawn_amount
            /\ \A e \in DOMAIN boids \ DOMAIN pre : InBox(boids[e])

\* The Spawn button has just added two boids under border_size 10, one of
\* them on the edge of the box.
C6_Witness ==
    /\ op = "spawn"
    /\ options.spawn_amount = 2
    /\ options.border_size = 10
    /\ Cardinality(DOMAIN boids \ DOMAIN pre) = 2
    /\ \E e \in DOMAIN boids \ DOMAIN pre : boids[e].x = 0 - AsF32(10)

\* C3: with speed_limit enabled (here with the default min_speed and
\* max_speed), when the velocity with which an iteration enters the
\* speed-limit step is non-zero, the magnitude of the velocity it pushes for
\* commit lies in [min_speed, max_speed], up to the rounding of the grid.
C3_SpeedBounds ==
    LET tol == Dec(1, 100)
        v == results[lastRead.entity]
        s == Speed(v.vx, v.vy)
    IN  /\ lastRead # NoRead
        /\ options.speed_limit
        /\ IsFinite(lastRead.before[1]) /\ IsFinite(lastRead.before[2])
        /\ lastRead.before # <<0, 0>>
        => FLe(FSub(options.min_speed, tol), s) /\ FLe(s, FAdd(options.max_speed, tol))

\* C4: every boid's position and velocity are finite in every state, from the
\* finite positions and zero velocities of init_world on; in particular after
\* a tick whose speed-limit step ran on a zero velocity.
C4_Finiteness ==
    \A e \in DOMAIN boids :
        /\ IsFinite(boids[e].x) /\ IsFinite(boids[e].y)
        /\ IsFinite(boids[e].vx) /\ IsFinite(boids[e].vy)

\* C7: a single boid, alone in the tree, border enabled and speed limit
\* disabled, with x > border_size and y within [-border_size, border_size]:
\* after one tick its vx has decreased by exactly border_impact and its vy is
\* unchanged.
C7_BorderScenario ==
    /\ pc = "idle" /\ op = "tick"
    /\ options.border /\ ~options.speed_limit
    /\ Cardinality(DOMAIN pre) = 1
    /\ DOMAIN boids = DOMAIN pre
    /\ preTree = FreshTree(pre)
    => \A e \in DOMAIN pre :
           /\ FGt(pre[e].x, AsF32(options.border_size))
           /\ FLe(0 - AsF32(options.border_size), pre[e].y)
           /\ FLe(pre[e].y, AsF32(options.border_size))
           => /\ boids[e].vx = FSub(pre[e].vx, options.border_impact)
              /\ boids[e].vy = pre[e].vy

\* C8: with separation, alignment and cohesion enabled and border and speed
\* limit disabled, a boid for which the tree returns no other boid is pushed
\* with its velocity unchanged, and two boids at rest within visibility_range
\* of each other both end the tick with a non-zero velocity.
C8_IsolatedAgent ==
    /\ options.separation /\ options.alignment /\ options.cohesion
    /\ ~options.border /\ ~options.speed_limit
    => /\ lastRead # NoRead /\ lastRead.flockIds \subseteq {lastRead.entity} =>
              /\ results[lastRead.entity].vx = pre[lastRead.entity].vx
              /\ results[lastRead.entity].vy = pre[lastRead.entity].vy
       /\ pc = "idle" /\ op = "tick" =>
              \A e, f \in DOMAIN pre :
                  /\ e # f
                  /\ pre[e].vx = 0 /\ pre[e].vy = 0 /\ pre[f].vx = 0 /\ pre[f].vy = 0
                  /\ [id |-> f, x |-> pre[f].x, y |-> pre[f].y]
                         \in WithinDistance(preTree, pre[e].x, pre[e].y,
                                            options.visibility_range)
                  => <<boids[e].vx, boids[e].vy>> # <<0, 0>>

\* C9: in every iteration at most `accuracy` of the entries the tree returned
\* reach the loop body (the accumulators), and flock_size is the number of
\* entries the tree returned.
C9_AccuracyCap ==
    lastRead # NoRead =>
        /\ Cardinality(lastRead.used) <= options.accuracy
        /\ lastRead.flock_size = Cardinality(lastRead.flockIds)
        /\ results[lastRead.entity].flock_size = lastRead.flock_size

\* The answers within_distance may give to the last iteration: the entries of
\* the tree in range, in every order.
AnswersOfLastRead ==
    Orders(WithinDistance(preTree, lastRead.own[1], lastRead.own[2],
                          options.visibility_range))

\* C10 as stated: the (boid, transform) an iteration pushes is the same for
\* every order in which within_distance returns the entries in range.
C10_QueryOrder_AsStated ==
    lastRead # NoRead =>
        \A f \in AnswersOfLastRead :
            TickBoid(options, pre[lastRead.entity], f, pre) = results[lastRead.entity]

\* C10 amended: flock_size is the same for every order in which
\* within_distance returns the entries in range, and so are the position and
\* the velocity whenever the number of entries in range is at most `accuracy`
\* (the additions of the sums taken as exact).
C10_QueryOrder ==
    lastRead # NoRead =>
        \A f \in AnswersOfLastRead :
            LET r == TickBoid(options, pre[lastRead.entity], f, pre)
            IN  /\ r.flock_size = results[lastRead.entity].flock_size
                /\ Len(f) <= options.accuracy => r = results[lastRead.entity]

\* An iteration has run on three entries in range, not cut by the cap, whose
\* velocities differ, and changed the boid's velocity.
C10_Witness ==
    /\ lastRead # NoRead
    /\ Cardinality(lastRead.flockIds) >= 3
    /\ Cardinality(lastRead.flockIds) <= options.accuracy
    /\ lastRead.used = lastRead.flockIds
    /\ \E m, n \in lastRead.nbrs : m.vx # n.vx
    /\ options.alignment
    /\ results[lastRead.entity].vx # pre[lastRead.entity].vx

\* C11: in an iteration with cohesion enabled whose cohesion accumulator
\* took at least one position, the term added to the velocity for cohesion
\* is (the accumulated sum divided by the number of positions accumulated,
\* minus the boid's own position) * 0.0005, on both axes.
C11_CohesionTerm ==
    /\ lastRead # NoRead
    /\ options.cohesion
    /\ lastRead.cohered # {}
    => LET n == AsF32(Cardinality(lastRead.cohered))
       IN  lastRead.cohesion =
               << FMul(FSub(FDiv(lastRead.sums[1], n), lastRead.own[1]), Dec(5, 10000)),
                  FMul(FSub(FDiv(lastRead.sums[2], n), lastRead.own[2]), Dec(5, 10000)) >>

\* A step of tick_boids: the paused return, the snapshot, one iteration of the
\* compute loop or one of the commit loop.
TickStep == TickPaused \/ TickBegin \/ ComputeStep \/ CommitStep

\* C12: no step of tick_boids, paused or not, with or without stale ids in
\* the tree, creates or destroys a boid or changes a boid's translation.z,
\* rotation or scale.
C12_TickFrame ==
    [][ TickStep =>
            /\ DOMAIN boids' = DOMAIN boids
            /\ \A e \in DOMAIN boids :
                   /\ boids'[e].z = boids[e].z
                   /\ boids'[e].rotation = boids[e].rotation
                   /\ boids'[e].scale = boids[e].scale ]_vars

\* A tick has committed a new position to a boid whose rotation
\* calculate_boid_rotation had set from an earlier velocity, while the tree
\* held the id of a despawned entity.
C12_Witness ==
    /\ pc = "idle"
    /\ op = "tick"
    /\ \E e \in DOMAIN boids :
           /\ Moved(e)
           /\ boids[e].x # pre[e].x
           /\ boids[e].rotation # NewBoid(0, 0).rotation
           /\ boids[e].rotation # RotationOf(0, 0)
    /\ \E it \in preTree : it.id \notin DOMAIN pre

\* C13, first part: after a tick with separation, alignment, cohesion, border
\* and speed limit all disabled every boid has its velocity of before the
\* tick and its position of before the tick plus that velocity.
AllDisabledNoEffect ==
    /\ pc = "idle" /\ op = "tick"
    /\ ~options.separation /\ ~options.alignment /\ ~options.cohesion
    /\ ~options.border /\ ~options.speed_limit
    => \A e \in DOMAIN pre \cap DOMAIN boids :
           /\ boids[e].vx = pre[e].vx
           /\ boids[e].vy = pre[e].vy
           /\ boids[e].x = FAdd(pre[e].x, pre[e].vx)
           /\ boids[e].y = FAdd(pre[e].y, pre[e].vy)

\* C13, second part: an iteration with alignment disabled adds nothing to the
\* velocity for alignment, and one with cohesion disabled nothing for cohesion.
DisabledTermIsZero ==
    lastRead # NoRead =>
        /\ ~options.alignment => lastRead.alignment = <<0, 0>>
        /\ ~options.cohesion => lastRead.cohesion = <<0, 0>>

\* C13: disabled rules have no effect: with all five rules disabled a tick
\* leaves every velocity as it was and moves every boid by its velocity, and
\* disabling alignment (or cohesion) alone removes that rule's term.
C13_DisabledRules == AllDisabledNoEffect /\ DisabledTermIsZero

====
